---- MODULE Spec2Model ----
(***************************************************************************)
(* TabView / TabPanel of primeng (packages/primeng/src/tabview/tabview.ts) *)
(* as a state machine: the selection engine of the container (initTabs,    *)
(* open, close, closeTab, the activeIndex setter) over the panels declared *)
(* as its content children.                                                *)
(*                                                                         *)
(* A panel is an identifier in 1..MaxPanels; identifiers are never reused, *)
(* so a closure that captured a panel (the close continuation) keeps       *)
(* naming the same object after the panel left the child declaration.      *)
(* Indexes are the program's 0-based indexes; tabs[i] of the program is    *)
(* c.tabs[i + 1] here.                                                     *)
(*                                                                         *)
(* Spec is the selection engine alone.  SpecListened is the engine with a  *)
(* listener that writes activeIndex back during the emit; SpecKeys adds    *)
(* the keyboard navigation over the rendered headers; SpecStrip is the     *)
(* header strip: its geometry, the size observer, the scroll listener and  *)
(* the teardown.                                                           *)
(***************************************************************************)
EXTENDS Integers, Sequences, FiniteSets, TLC

\* Bound: the number of TabPanel objects ever created.
MaxPanels == 3

\* The value of _activeIndex before any assignment (undefined).
undefined == -2

\* The result of findSelectedTab when no panel is selected (null).
null == 0

PanelIds == 1..MaxPanels

\* Values an application assigns to the activeIndex input: -1 is out of range
\* for every panel list, MaxPanels - 1 for every list but the longest.
IndexInputs == -1..(MaxPanels - 1)

\* Bound: the widths of the header list and of its wrapper, in pixels.
MaxWidth == 3

\* Bound: the scroll positions the browser reports per pixel; scrollLeft is
\* counted in these units.
SubPixel == 2

VARIABLES
    panels,        \* the TabPanel objects still referenced: id -> fields
    tabPanels,     \* the content children (QueryList<TabPanel>), in order
    tabs,          \* TabView.tabs
    activeIndex,   \* TabView._activeIndex
    preventActiveIndexPropagation,
    tabChanged,
    controlClose,  \* input, fixed for the life of the component
    twoWay,        \* whether activeIndex is bound two-way: [(activeIndex)]
    subscribed,    \* tabChangesSubscription is set and not unsubscribed
    contentInit,   \* ngAfterContentInit has run
    closeRequests, \* the panel whose close continuation the listener holds
    created,       \* the number of TabPanel objects created so far
    emitted,       \* what the last handler emitted or requested, in order
    threw,         \* the last handler ended in a TypeError
    lastOp,        \* the last handler: its name and arguments
    selectOnFocus, \* input, fixed for the life of the component
    focused,       \* the panel whose header changeFocusedTab focused last
    scrollable,    \* input, fixed for the life of the component
    autoHideButtons, \* input, fixed for the life of the component
    buttonWidth,   \* width of a rendered nav button (prevBtn, nextBtn)
    listWidth,     \* offsetWidth of the header list (data-pc-section nav)
    contentWidth,  \* width of the wrapper (#content, navcontent)
    scrollLeft,    \* scrollLeft of the wrapper, in units of 1/SubPixel pixel
    buttonVisible,
    backwardIsDisabled,
    forwardIsDisabled,
    resizeObserver, \* the field resizeObserver holds an observer
    observed,      \* the elements the ResizeObserver observes
    viewInit,      \* ngAfterViewInit has run
    destroyed      \* ngOnDestroy has run

\* The selection engine.
engineVars == <<panels, tabPanels, tabs, activeIndex, preventActiveIndexPropagation,
                tabChanged, controlClose, twoWay, subscribed, contentInit,
                closeRequests, created, emitted, threw, lastOp>>

\* The keyboard navigation.
keyVars == <<selectOnFocus, focused>>

\* The header strip and the life cycle of the view.
stripVars == <<scrollable, autoHideButtons, buttonWidth, listWidth, contentWidth, scrollLeft,
               buttonVisible, backwardIsDisabled, forwardIsDisabled,
               resizeObserver, observed, viewInit, destroyed>>

vars == <<engineVars, keyVars, stripVars>>

(***************************************************************************)
(* Helpers on sequences.                                                   *)
(***************************************************************************)
Range(s) == {s[i] : i \in 1..Len(s)}

RemoveAt(s, i) == SubSeq(s, 1, i - 1) \o SubSeq(s, i + 1, Len(s))

Min(S) == CHOOSE x \in S : \A y \in S : x <= y

(***************************************************************************)
(* TabPanel.                                                               *)
(***************************************************************************)
\* A TabPanel after construction and input binding.
NewPanel(sel, dis) ==
    [selected |-> sel, disabled |-> dis, closed |-> FALSE, loaded |-> sel]

\* The selected setter as it would be if loaded followed the value.
SetSelected_loadedFollows(ps, p, val) ==
    [ps EXCEPT ![p] = [@ EXCEPT !.selected = val, !.loaded = val]]

\* set selected(val): stores the value; loaded becomes true with it.
SetSelected(ps, p, val) ==
    [ps EXCEPT ![p] = [@ EXCEPT !.selected = val, !.loaded = @ \/ val]]

(***************************************************************************)
(* The part of the component the handlers read and write, as a record.     *)
(***************************************************************************)
Component ==
    [panels |-> panels, tabs |-> tabs, activeIndex |-> activeIndex,
     prevent |-> preventActiveIndexPropagation, tabChanged |-> tabChanged,
     emitted |-> <<>>, threw |-> FALSE]

SelectedSet(ps) == {p \in DOMAIN ps : ps[p].selected}

ClosedSet(ps) == {p \in DOMAIN ps : ps[p].closed}

\* EventEmitter.emit, and the call of updateScrollBar: appended to the
\* handler's trace with the state the listener observes.
Emit(c, type, index, hasClose) ==
    [c EXCEPT !.emitted = Append(@,
        [type |-> type, index |-> index, close |-> hasClose,
         selected |-> SelectedSet(c.panels), closed |-> ClosedSet(c.panels),
         tabChanged |-> c.tabChanged])]

Throw(c) == [c EXCEPT !.threw = TRUE]

\* findSelectedTab: the first panel of tabs with selected, or null.
findSelectedTab(c) ==
    LET hits == {i \in 1..Len(c.tabs) : c.panels[c.tabs[i]].selected}
    IN  IF hits = {} THEN null ELSE c.tabs[Min(hits)]

\* findTabIndex: the first index of tab in tabs, or -1.
findTabIndex(c, tab) ==
    LET hits == {i \in 1..Len(c.tabs) : c.tabs[i] = tab}
    IN  IF hits = {} THEN -1 ELSE Min(hits) - 1

\* updateScrollBar(index): the request to scroll the header into view.
updateScrollBar(c, index) == Emit(c, "updateScrollBar", index, FALSE)

(***************************************************************************)
(* TabView: the selection engine.                                          *)
(***************************************************************************)
\* The activeIndex setter as it would be without the guard flag.
set_activeIndex_ignoresGuard(c, val) ==
    LET c1 == [c EXCEPT !.activeIndex = val, !.prevent = FALSE]
    IN  IF Len(c1.tabs) > 0 /\ val # undefined /\ Len(c1.tabs) > val
        THEN LET sel == findSelectedTab(c1)
             IN  IF sel = null \/ val < 0
                 THEN Throw(c1)
                 ELSE updateScrollBar(
                          [c1 EXCEPT !.panels = SetSelected(SetSelected(@, sel, FALSE),
                                                            c1.tabs[val + 1], TRUE),
                                     !.tabChanged = TRUE], val)
        ELSE c1

\* set activeIndex(val).  A TypeError leaves the assignments made before it:
\* findSelectedTab() returns null when nothing is selected, and tabs[val] is
\* undefined for a negative val.
set_activeIndex(c, val) ==
    LET c1 == [c EXCEPT !.activeIndex = val]
    IN  IF c1.prevent
        THEN [c1 EXCEPT !.prevent = FALSE]
        ELSE IF Len(c1.tabs) > 0 /\ val # undefined /\ Len(c1.tabs) > val
             THEN LET sel == findSelectedTab(c1)
                  IN  IF sel = null
                      THEN Throw(c1)
                      ELSE LET c2 == [c1 EXCEPT !.panels = SetSelected(@, sel, FALSE)]
                           IN  IF val < 0
                               THEN Throw(c2)
                               ELSE updateScrollBar(
                                        [c2 EXCEPT !.panels = SetSelected(@, c2.tabs[val + 1], TRUE),
                                                   !.tabChanged = TRUE], val)
             ELSE c1

\* initTabs as it would be if it left the closed children out of tabs.
initTabs_dropsClosed(c, children) ==
    LET c1 == [c EXCEPT !.tabs = SelectSeq(children, LAMBDA p : ~c.panels[p].closed)]
    IN  IF findSelectedTab(c1) = null /\ Len(c1.tabs) > 0
        THEN [c1 EXCEPT !.panels = SetSelected(@, c1.tabs[1], TRUE),
                        !.tabChanged = TRUE]
        ELSE c1

\* initTabs(): tabs becomes the content children; when none of them is
\* selected one is selected, silently.
initTabs(c, children) ==
    LET c1 == [c EXCEPT !.tabs = children]
    IN  IF findSelectedTab(c1) = null /\ Len(c1.tabs) > 0
        THEN IF c1.activeIndex # undefined /\ Len(c1.tabs) > c1.activeIndex
             THEN IF c1.activeIndex < 0
                  THEN Throw(c1)
                  ELSE [c1 EXCEPT !.panels = SetSelected(@, c1.tabs[c1.activeIndex + 1], TRUE),
                                  !.tabChanged = TRUE]
             ELSE [c1 EXCEPT !.panels = SetSelected(@, c1.tabs[1], TRUE),
                             !.tabChanged = TRUE]
        ELSE c1

\* open as it would be with the notifications emitted before tab.selected is
\* set.
open_emitsBeforeSelecting(c, tab) ==
    IF c.panels[tab].disabled
    THEN c
    ELSE IF ~c.panels[tab].selected
         THEN LET sel == findSelectedTab(c)
                  c1 == IF sel # null
                        THEN [c EXCEPT !.panels = SetSelected(@, sel, FALSE)]
                        ELSE c
                  c2 == [c1 EXCEPT !.tabChanged = TRUE]
                  selectedTabIndex == findTabIndex(c2, tab)
                  c3 == [c2 EXCEPT !.prevent = TRUE]
                  c4 == Emit(c3, "activeIndexChange", selectedTabIndex, FALSE)
                  c5 == Emit(c4, "onChange", selectedTabIndex, FALSE)
                  c6 == [c5 EXCEPT !.panels = SetSelected(@, tab, TRUE)]
              IN  updateScrollBar(c6, selectedTabIndex)
         ELSE c

\* open as it would be without the test of tab.selected.
open_ignoresSelected(c, tab) ==
    IF c.panels[tab].disabled
    THEN c
    ELSE LET sel == findSelectedTab(c)
             c1 == IF sel # null
                   THEN [c EXCEPT !.panels = SetSelected(@, sel, FALSE)]
                   ELSE c
             c2 == [c1 EXCEPT !.tabChanged = TRUE]
             c3 == [c2 EXCEPT !.panels = SetSelected(@, tab, TRUE)]
             selectedTabIndex == findTabIndex(c3, tab)
             c4 == [c3 EXCEPT !.prevent = TRUE]
             c5 == Emit(c4, "activeIndexChange", selectedTabIndex, FALSE)
             c6 == Emit(c5, "onChange", selectedTabIndex, FALSE)
         IN  updateScrollBar(c6, selectedTabIndex)

\* open(event, tab).
open(c, tab) ==
    IF c.panels[tab].disabled
    THEN c
    ELSE IF ~c.panels[tab].selected
         THEN LET sel == findSelectedTab(c)
                  c1 == IF sel # null
                        THEN [c EXCEPT !.panels = SetSelected(@, sel, FALSE)]
                        ELSE c
                  c2 == [c1 EXCEPT !.tabChanged = TRUE]
                  c3 == [c2 EXCEPT !.panels = SetSelected(@, tab, TRUE)]
                  selectedTabIndex == findTabIndex(c3, tab)
                  c4 == [c3 EXCEPT !.prevent = TRUE]
                  c5 == Emit(c4, "activeIndexChange", selectedTabIndex, FALSE)
                  c6 == Emit(c5, "onChange", selectedTabIndex, FALSE)
              IN  updateScrollBar(c6, selectedTabIndex)
         ELSE c

\* open(event, tab) when the listener of activeIndexChange assigns the
\* emitted index to activeIndex synchronously: the setter runs inside
\* activeIndexChange.emit, before onChange is emitted.
openWithListener(c, tab) ==
    IF c.panels[tab].disabled
    THEN c
    ELSE IF ~c.panels[tab].selected
         THEN LET sel == findSelectedTab(c)
                  c1 == IF sel # null
                        THEN [c EXCEPT !.panels = SetSelected(@, sel, FALSE)]
                        ELSE c
                  c2 == [c1 EXCEPT !.tabChanged = TRUE]
                  c3 == [c2 EXCEPT !.panels = SetSelected(@, tab, TRUE)]
                  selectedTabIndex == findTabIndex(c3, tab)
                  c4 == [c3 EXCEPT !.prevent = TRUE]
                  c5 == Emit(c4, "activeIndexChange", selectedTabIndex, FALSE)
                  listened == set_activeIndex(c5, selectedTabIndex)
                  c6 == Emit(listened, "onChange", selectedTabIndex, FALSE)
              IN  updateScrollBar(c6, selectedTabIndex)
         ELSE c

\* closeTab as it would be without the test of tab.disabled.
closeTab_ignoresDisabled(c, tab) ==
    LET c1 == IF c.panels[tab].selected
              THEN LET c2 == [c EXCEPT !.tabChanged = TRUE,
                                       !.panels = SetSelected(@, tab, FALSE)]
                       hits == {i \in 1..Len(c2.tabs) : ~c2.panels[c2.tabs[i]].closed}
                   IN  IF hits = {}
                       THEN c2
                       ELSE [c2 EXCEPT !.panels = SetSelected(@, c2.tabs[Min(hits)], TRUE)]
              ELSE c
    IN  [c1 EXCEPT !.panels[tab].closed = TRUE]

\* closeTab(tab).  The fallback loop tests the closing tab's disabled, not
\* the candidate's, and runs before tab.closed is set.
closeTab(c, tab) ==
    IF c.panels[tab].disabled
    THEN c
    ELSE LET c1 == IF c.panels[tab].selected
                   THEN LET c2 == [c EXCEPT !.tabChanged = TRUE,
                                            !.panels = SetSelected(@, tab, FALSE)]
                            hits == {i \in 1..Len(c2.tabs) :
                                        /\ ~c2.panels[c2.tabs[i]].closed
                                        /\ ~c2.panels[tab].disabled}
                        IN  IF hits = {}
                            THEN c2
                            ELSE [c2 EXCEPT !.panels = SetSelected(@, c2.tabs[Min(hits)], TRUE)]
                   ELSE c
         IN  [c1 EXCEPT !.panels[tab].closed = TRUE]

\* close as it would be with onClose emitted before the tab is closed.
close_emitsBeforeClosing(c, ctl, tab) ==
    LET c1 == Emit(c, "onClose", findTabIndex(c, tab), ctl)
    IN  IF ctl THEN c1 ELSE closeTab(c1, tab)

\* close as it would be if controlled mode closed the tab as well.
close_closesAtOnce(c, ctl, tab) ==
    LET c1 == closeTab(c, tab)
    IN  Emit(c1, "onClose", findTabIndex(c1, tab), ctl)

\* close(event, tab).
close(c, ctl, tab) ==
    IF ctl
    THEN Emit(c, "onClose", findTabIndex(c, tab), TRUE)
    ELSE LET c1 == closeTab(c, tab)
         IN  Emit(c1, "onClose", findTabIndex(c1, tab), FALSE)

(***************************************************************************)
(* TabView: keyboard navigation over the rendered headers.                 *)
(*                                                                         *)
(* The children of the header list as the template renders them: for every *)
(* panel of tabs that is not closed, in order, its header button (with     *)
(* data-pc-index = its index in tabs and data-p-disabled = its disabled)   *)
(* followed by an indicator span (data-pc-section = inkbar).  An element   *)
(* reference is a position in this sequence; null is no element.           *)
(***************************************************************************)
HeaderAction(c, i) ==
    [section |-> "headeraction", index |-> i - 1,
     disabled |-> c.panels[c.tabs[i]].disabled, panel |-> c.tabs[i]]

InkBar == [section |-> "inkbar", index |-> undefined, disabled |-> FALSE, panel |-> null]

RECURSIVE RenderFrom(_, _)
RenderFrom(c, i) ==
    IF i > Len(c.tabs)
    THEN <<>>
    ELSE IF c.panels[c.tabs[i]].closed
         THEN RenderFrom(c, i + 1)
         ELSE <<HeaderAction(c, i), InkBar>> \o RenderFrom(c, i + 1)

\* navbar.nativeElement.children
navbar(c) == RenderFrom(c, 1)

\* The header button of panel p, or null when it is not rendered.
HeaderOf(c, p) ==
    LET els == navbar(c)
        hits == {e \in 1..Len(els) : els[e].panel = p}
    IN  IF hits = {} THEN null ELSE Min(hits)

nextElementSibling(els, e) == IF e < Len(els) THEN e + 1 ELSE null

previousElementSibling(els, e) == IF e > 1 THEN e - 1 ELSE null

firstElementChild(els) == IF Len(els) > 0 THEN 1 ELSE null

lastElementChild(els) == IF Len(els) > 0 THEN Len(els) ELSE null

\* getAttribute(element, 'data-pc-index'): undefined without an element.
dataPcIndex(els, e) == IF e = null THEN undefined ELSE els[e].index

\* findNextHeaderAction as it would be without the test of data-p-disabled:
\* the next element that is not an indicator.
findNextHeaderAction_ignoresDisabled(els, tabElement, selfCheck) ==
    LET headerElement == IF selfCheck THEN tabElement
                         ELSE nextElementSibling(els, tabElement)
    IN  IF headerElement # null /\ els[headerElement].section = "inkbar"
        THEN nextElementSibling(els, headerElement)
        ELSE headerElement

\* findNextHeaderAction(tabElement, selfCheck).
RECURSIVE findNextHeaderAction(_, _, _)
findNextHeaderAction(els, tabElement, selfCheck) ==
    LET headerElement == IF selfCheck THEN tabElement
                         ELSE nextElementSibling(els, tabElement)
    IN  IF headerElement # null
        THEN IF els[headerElement].disabled \/ els[headerElement].section = "inkbar"
             THEN findNextHeaderAction(els, headerElement, FALSE)
             ELSE headerElement
        ELSE null

\* findPrevHeaderAction(tabElement, selfCheck).
RECURSIVE findPrevHeaderAction(_, _, _)
findPrevHeaderAction(els, tabElement, selfCheck) ==
    LET headerElement == IF selfCheck THEN tabElement
                         ELSE previousElementSibling(els, tabElement)
    IN  IF headerElement # null
        THEN IF els[headerElement].disabled \/ els[headerElement].section = "inkbar"
             THEN findPrevHeaderAction(els, headerElement, FALSE)
             ELSE headerElement
        ELSE null

\* findFirstHeaderAction().
findFirstHeaderAction(els) == findNextHeaderAction(els, firstElementChild(els), TRUE)

\* findLastHeaderAction(): steps back from a trailing indicator first.
findLastHeaderAction(els) ==
    LET lastEl == lastElementChild(els)
        lastHeaderAction == IF lastEl # null /\ els[lastEl].section = "inkbar"
                            THEN previousElementSibling(els, lastEl)
                            ELSE lastEl
    IN  findPrevHeaderAction(els, lastHeaderAction, TRUE)

\* changeFocusedTab(event, element, index): focus(element), scrollIntoView,
\* and open(tabs[index]) when selectOnFocus is set.
changeFocusedTab(c, element, index) ==
    IF element # null
    THEN LET c1 == [c EXCEPT !.focused = navbar(c)[element].panel]
             c2 == Emit(c1, "scrollIntoView", index, FALSE)
         IN  IF c2.selectOnFocus
             THEN open(c2, c2.tabs[index + 1])
             ELSE c2
    ELSE c

\* onTabHomeKey as it would be if it took the first child of the list.
onTabHomeKey_takesFirstChild(c) ==
    LET firstHeaderAction == firstElementChild(navbar(c))
    IN  changeFocusedTab(c, firstHeaderAction, dataPcIndex(navbar(c), firstHeaderAction))

\* onTabHomeKey(event).
onTabHomeKey(c) ==
    LET els == navbar(c)
        firstHeaderAction == findFirstHeaderAction(els)
        index == dataPcIndex(els, firstHeaderAction)
    IN  changeFocusedTab(c, firstHeaderAction, index)

\* onTabEndKey(event).
onTabEndKey(c) ==
    LET els == navbar(c)
        lastHeaderAction == findLastHeaderAction(els)
        index == dataPcIndex(els, lastHeaderAction)
    IN  changeFocusedTab(c, lastHeaderAction, index)

\* onTabArrowLeftKey(event); currentTarget is the header the key was
\* pressed on.
onTabArrowLeftKey(c, currentTarget) ==
    LET els == navbar(c)
        prevHeaderAction == findPrevHeaderAction(els, currentTarget, FALSE)
        index == dataPcIndex(els, prevHeaderAction)
    IN  IF prevHeaderAction # null
        THEN changeFocusedTab(c, prevHeaderAction, index)
        ELSE onTabEndKey(c)

\* onTabArrowRightKey(event).
onTabArrowRightKey(c, currentTarget) ==
    LET els == navbar(c)
        nextHeaderAction == findNextHeaderAction(els, currentTarget, FALSE)
        index == dataPcIndex(els, nextHeaderAction)
    IN  IF nextHeaderAction # null
        THEN changeFocusedTab(c, nextHeaderAction, index)
        ELSE onTabHomeKey(c)

\* The key codes onTabKeyDown handles.
\* updateInkBar(): the first rendered header with data-p-active = true gives
\* the indicator its width and left offset; without one nothing is written.
updateInkBar(c) ==
    LET els == navbar(c)
        active == {e \in 1..Len(els) :
                     /\ els[e].section = "headeraction"
                     /\ c.panels[els[e].panel].selected}
    IN  IF active = {}
        THEN c
        ELSE Emit(c, "updateInkBar", els[Min(active)].index, FALSE)

\* ngAfterViewChecked(), in the browser.
ngAfterViewChecked(c) ==
    IF c.tabChanged
    THEN [updateInkBar(c) EXCEPT !.tabChanged = FALSE]
    ELSE c

KeyCodes == {"ArrowLeft", "ArrowRight", "Home", "End", "PageDown", "PageUp", "Enter", "Space"}

\* onTabKeyDown(event, tab): event.code selects the handler; the header of
\* tab is event.currentTarget.
onTabKeyDown(c, code, tab) ==
    CASE code = "ArrowLeft"  -> onTabArrowLeftKey(c, HeaderOf(c, tab))
      [] code = "ArrowRight" -> onTabArrowRightKey(c, HeaderOf(c, tab))
      [] code = "Home"       -> onTabHomeKey(c)
      [] code = "End"        -> onTabEndKey(c)
      [] code = "PageDown"   -> onTabEndKey(c)
      [] code = "PageUp"     -> onTabHomeKey(c)
      [] code \in {"Enter", "Space"} -> open(c, tab)
      [] OTHER -> c

(***************************************************************************)
(* TabView: the header strip.                                              *)
(*                                                                         *)
(* The wrapper (#content, data-pc-section navcontent) is the scroll        *)
(* container of the header list (data-pc-section nav), its only child: its *)
(* scrollWidth is the larger of the two widths, and the browser keeps its  *)
(* scrollLeft between 0 and scrollWidth - width.  Widths are whole pixels; *)
(* scrollLeft is reported in fractions of a pixel.                         *)
(***************************************************************************)
\* The element bindResizeObserver observes: this.container, the wrapper.
container == "navcontent"

\* The element of the template reference #elementToObserve: the p-tablist
\* div around the wrapper and the two buttons.
elementToObserve == "tablist"

\* The part of the component these handlers read and write, as a record.
Strip ==
    [scrollable |-> scrollable, autoHideButtons |-> autoHideButtons,
     buttonWidth |-> buttonWidth,
     listWidth |-> listWidth, contentWidth |-> contentWidth, scrollLeft |-> scrollLeft,
     buttonVisible |-> buttonVisible, backwardIsDisabled |-> backwardIsDisabled,
     forwardIsDisabled |-> forwardIsDisabled, resizeObserver |-> resizeObserver,
     observed |-> observed, subscribed |-> subscribed]

\* content.scrollWidth, in pixels.
scrollWidth(v) == IF v.listWidth >= v.contentWidth THEN v.listWidth ELSE v.contentWidth

\* The largest scrollLeft the browser allows, in units of 1/SubPixel pixel.
MaxScrollLeft(v) == SubPixel * (scrollWidth(v) - v.contentWidth)

\* Math.round of a position given in units of 1/SubPixel pixel: the nearest
\* whole pixel, a half rounded up.
Math_round(x) == (2 * x + SubPixel) \div (2 * SubPixel)

\* updateButtonState as it would be if it compared scrollLeft unrounded.
updateButtonState_unrounded(v) ==
    [v EXCEPT !.backwardIsDisabled = (v.scrollLeft = 0),
              !.forwardIsDisabled = (v.scrollLeft = MaxScrollLeft(v))]

\* updateButtonState().
updateButtonState(v) ==
    [v EXCEPT !.backwardIsDisabled = (v.scrollLeft = 0),
              !.forwardIsDisabled =
                  (Math_round(v.scrollLeft) = scrollWidth(v) - v.contentWidth)]

\* The callback as it would be if it showed the button only for a list
\* wider than the wrapper.
resizeCallback_strictlyWider(v) ==
    updateButtonState([v EXCEPT !.buttonVisible = (v.listWidth > v.contentWidth)])

\* The callback bindResizeObserver gives the ResizeObserver.
resizeCallback(v) ==
    updateButtonState([v EXCEPT !.buttonVisible = (v.listWidth >= v.contentWidth)])

\* bindResizeObserver(): the new observer observes this.container.
bindResizeObserver(v) ==
    [v EXCEPT !.resizeObserver = TRUE, !.observed = @ \cup {container}]

\* unbindResizeObserver(): unobserve(elementToObserve.nativeElement), then
\* the field is set to null.
unbindResizeObserver(v) ==
    [v EXCEPT !.observed = @ \ {elementToObserve}, !.resizeObserver = FALSE]

\* ngAfterViewInit().
ngAfterViewInit(v) == IF v.autoHideButtons THEN bindResizeObserver(v) ELSE v

\* ngOnDestroy().
ngOnDestroy(v) ==
    LET v1 == IF v.subscribed THEN [v EXCEPT !.subscribed = FALSE] ELSE v
    IN  IF v1.resizeObserver THEN unbindResizeObserver(v1) ELSE v1

\* refreshButtonState(): acts only when the list is at least as wide as the
\* wrapper, and then sets buttonVisible to that same comparison.
refreshButtonState(v) ==
    IF v.listWidth >= v.contentWidth
    THEN updateButtonState([v EXCEPT !.buttonVisible = (v.listWidth >= v.contentWidth)])
    ELSE v

\* onScroll(event).
onScroll(v) == IF v.scrollable THEN updateButtonState(v) ELSE v

\* The template renders the prevBtn and nextBtn buttons under these conditions.
prevBtn(v) == v.scrollable /\ ~v.backwardIsDisabled /\ v.autoHideButtons

nextBtn(v) == v.scrollable /\ ~v.forwardIsDisabled /\ v.buttonVisible

\* getVisibleButtonWidths(): the sum of the widths of the rendered buttons.
getVisibleButtonWidths(v) ==
    (IF prevBtn(v) THEN v.buttonWidth ELSE 0) + (IF nextBtn(v) THEN v.buttonWidth ELSE 0)

\* navBackward(): the value it assigns to content.scrollLeft, in units of
\* 1/SubPixel pixel.
navBackward(v) ==
    LET width == SubPixel * (v.contentWidth - getVisibleButtonWidths(v))
        pos == v.scrollLeft - width
    IN  [v EXCEPT !.scrollLeft = IF pos <= 0 THEN 0 ELSE pos]

\* navForward(): the value it assigns to content.scrollLeft.
navForward(v) ==
    LET width == SubPixel * (v.contentWidth - getVisibleButtonWidths(v))
        pos == v.scrollLeft + width
        lastPos == SubPixel * scrollWidth(v) - width
    IN  [v EXCEPT !.scrollLeft = IF pos >= lastPos THEN lastPos ELSE pos]

\* The browser keeps an assigned scrollLeft within the scrollable range, and
\* delivers a scroll event when the position changed.
Scrolled(v, before) ==
    LET x == v.scrollLeft
        v1 == [v EXCEPT !.scrollLeft = IF x < 0 THEN 0
                                        ELSE IF x > MaxScrollLeft(v) THEN MaxScrollLeft(v)
                                        ELSE x]
    IN  IF v1.scrollLeft # before THEN onScroll(v1) ELSE v1

(***************************************************************************)
(* The state machine.                                                      *)
(***************************************************************************)
Op(name, tab, val) == [op |-> name, tab |-> tab, val |-> val]

\* The objects still referenced: by the child declaration, by tabs, or by a
\* close continuation.  A destroyed panel nothing references is dropped.
Live(c, children, reqs) == Range(children) \cup Range(c.tabs) \cup reqs

\* The handler's result becomes the component's state.
Store(c, children, reqs) ==
    /\ panels' = [p \in Live(c, children, reqs) |-> c.panels[p]]
    /\ tabs' = c.tabs
    /\ activeIndex' = c.activeIndex
    /\ preventActiveIndexPropagation' = c.prevent
    /\ tabChanged' = c.tabChanged
    /\ emitted' = c.emitted
    /\ threw' = c.threw
    /\ tabPanels' = children
    /\ closeRequests' = reqs

\* After construction: the declared children exist with their inputs bound
\* (at most one of them declared selected); tabs is not yet assigned.
InitEngine ==
    /\ \E n \in 0..MaxPanels :
         /\ tabPanels = [i \in 1..n |-> i]
         /\ created = n
         /\ \E pre \in 0..n, dis \in [1..n -> BOOLEAN] :
              panels = [p \in 1..n |-> NewPanel(p = pre, dis[p])]
    /\ tabs = <<>>
    /\ activeIndex = undefined
    /\ preventActiveIndexPropagation = FALSE
    /\ tabChanged = FALSE
    /\ controlClose \in BOOLEAN
    /\ twoWay \in BOOLEAN
    /\ subscribed = FALSE
    /\ contentInit = FALSE
    /\ closeRequests = {}
    /\ emitted = <<>>
    /\ threw = FALSE
    /\ lastOp = Op("constructor", null, undefined)

\* After construction no header has been focused.
InitKeyboard(sof) ==
    /\ selectOnFocus = sof
    /\ focused = null

\* After construction: the fields' initialisers (backwardIsDisabled = true,
\* forwardIsDisabled = false; buttonVisible and resizeObserver are left
\* undefined, which every reader treats as false), no view, and a strip of
\* the given geometry scrolled to its start.
InitStrip(scr, hide, btn, list, content) ==
    /\ scrollable = scr
    /\ autoHideButtons = hide
    /\ buttonWidth = btn
    /\ listWidth = list
    /\ contentWidth = content
    /\ scrollLeft = 0
    /\ buttonVisible = FALSE
    /\ backwardIsDisabled = TRUE
    /\ forwardIsDisabled = FALSE
    /\ resizeObserver = FALSE
    /\ observed = {}
    /\ viewInit = FALSE
    /\ destroyed = FALSE

\* The selection engine alone: the inputs of the keyboard navigation and of
\* the strip at their defaults, the strip not laid out.
Init ==
    /\ InitEngine
    /\ InitKeyboard(FALSE)
    /\ InitStrip(FALSE, TRUE, 0, 0, 0)

\* ngAfterContentInit(): initTabs, then the subscription to the children's
\* changes (not reached when initTabs throws).
NgAfterContentInit ==
    /\ ~contentInit
    /\ LET c == initTabs(Component, tabPanels)
       IN  /\ Store(c, tabPanels, closeRequests)
           /\ subscribed' = ~c.threw
    /\ contentInit' = TRUE
    /\ lastOp' = Op("ngAfterContentInit", null, undefined)
    /\ UNCHANGED <<controlClose, twoWay, created>>
    /\ UNCHANGED <<keyVars, stripVars>>

\* The application assigns the activeIndex input: before the content is
\* initialised, or while the component is alive (a component whose
\* ngAfterContentInit threw never gets its view).
AssignActiveIndex(k) ==
    /\ ~contentInit \/ subscribed
    /\ Store(set_activeIndex(Component, k), tabPanels, closeRequests)
    /\ lastOp' = Op("activeIndex", null, k)
    /\ UNCHANGED <<controlClose, twoWay, subscribed, contentInit, created>>
    /\ UNCHANGED <<keyVars, stripVars>>

\* A header is clicked (or open is called) for a panel whose header is
\* rendered: the view exists once ngAfterContentInit has completed.  Under a two-way binding the emitted index is written back to
\* the activeIndex input.
OpenTab(p) ==
    /\ subscribed
    /\ p \in Range(tabs)
    /\ ~panels[p].closed
    /\ LET c == open(Component, p)
       IN  IF twoWay /\ c.emitted # <<>>
           THEN Store(set_activeIndex(c, c.emitted[1].index), tabPanels, closeRequests)
           ELSE Store(c, tabPanels, closeRequests)
    /\ lastOp' = Op("open", p, undefined)
    /\ UNCHANGED <<controlClose, twoWay, subscribed, contentInit, created>>
    /\ UNCHANGED <<keyVars, stripVars>>

\* The close icon of a rendered header is clicked.  The listener of onClose
\* keeps the continuation of the latest request.
CloseTab(p) ==
    /\ subscribed
    /\ p \in Range(tabs)
    /\ ~panels[p].closed
    /\ Store(close(Component, controlClose, p), tabPanels,
             IF controlClose THEN {p} ELSE closeRequests)
    /\ lastOp' = Op("close", p, undefined)
    /\ UNCHANGED <<controlClose, twoWay, subscribed, contentInit, created>>
    /\ UNCHANGED <<keyVars, stripVars>>

\* The listener of onClose invokes the continuation it was given.
InvokeClose(p) ==
    /\ p \in closeRequests
    /\ Store(closeTab(Component, p), tabPanels, closeRequests \ {p})
    /\ lastOp' = Op("closeContinuation", p, undefined)
    /\ UNCHANGED <<controlClose, twoWay, subscribed, contentInit, created>>
    /\ UNCHANGED <<keyVars, stripVars>>

\* The fields of the strip a handler's result sets.
StoreStripFields(v) ==
    /\ listWidth' = v.listWidth
    /\ contentWidth' = v.contentWidth
    /\ scrollLeft' = v.scrollLeft
    /\ buttonVisible' = v.buttonVisible
    /\ backwardIsDisabled' = v.backwardIsDisabled
    /\ forwardIsDisabled' = v.forwardIsDisabled
    /\ resizeObserver' = v.resizeObserver
    /\ observed' = v.observed

\* tabPanels.changes: the subscriber runs initTabs, then refreshButtonState
\* (not reached when initTabs throws).
Changes(children, ps) ==
    LET c == initTabs([Component EXCEPT !.panels = ps], children)
    IN  /\ Store(c, children, closeRequests)
        /\ StoreStripFields(IF c.threw THEN Strip ELSE refreshButtonState(Strip))

\* A panel is added at the end of the child declaration.
TabPanelAdded(dis) ==
    /\ subscribed
    /\ created < MaxPanels
    /\ LET p == created + 1
       IN  /\ Changes(Append(tabPanels, p),
                      [q \in DOMAIN panels \cup {p} |->
                          IF q = p THEN NewPanel(FALSE, dis) ELSE panels[q]])
           /\ lastOp' = Op("added", p, undefined)
    /\ created' = created + 1
    /\ UNCHANGED <<controlClose, twoWay, subscribed, contentInit>>
    /\ UNCHANGED <<keyVars, scrollable, autoHideButtons, buttonWidth, viewInit, destroyed>>

\* The panel at position i is removed from the child declaration (destroyed).
TabPanelRemoved(i) ==
    /\ subscribed
    /\ Changes(RemoveAt(tabPanels, i), panels)
    /\ lastOp' = Op("removed", tabPanels[i], undefined)
    /\ UNCHANGED <<controlClose, twoWay, subscribed, contentInit, created>>
    /\ UNCHANGED <<keyVars, scrollable, autoHideButtons, buttonWidth, viewInit, destroyed>>

Next ==
    \/ NgAfterContentInit
    \/ \E k \in IndexInputs : AssignActiveIndex(k)
    \/ \E p \in PanelIds : OpenTab(p)
    \/ \E p \in PanelIds : CloseTab(p)
    \/ \E p \in PanelIds : InvokeClose(p)
    \/ \E dis \in BOOLEAN : TabPanelAdded(dis)
    \/ \E i \in 1..Len(tabPanels) : TabPanelRemoved(i)

Spec == Init /\ [][Next]_vars

(***************************************************************************)
(* The component whose panels have their selected input bound by the       *)
(* application: the binding may assign it at any time after the content is *)
(* initialised.  The indices assigned to activeIndex are not negative.     *)
(***************************************************************************)
\* The application assigns the selected input of a declared panel.
SelectedInput(p, val) ==
    /\ subscribed
    /\ p \in Range(tabPanels)
    /\ panels' = SetSelected(panels, p, val)
    /\ lastOp' = Op(IF val THEN "selected=true" ELSE "selected=false", p, undefined)
    /\ UNCHANGED <<tabPanels, tabs, activeIndex, preventActiveIndexPropagation,
                   tabChanged, controlClose, twoWay, subscribed, contentInit,
                   closeRequests, created, emitted, threw>>
    /\ UNCHANGED <<keyVars, stripVars>>

NextInputs ==
    \/ NgAfterContentInit
    \/ \E k \in 0..(MaxPanels - 1) : AssignActiveIndex(k)
    \/ \E p \in PanelIds : OpenTab(p)
    \/ \E p \in PanelIds, val \in BOOLEAN : SelectedInput(p, val)

SpecInputs == Init /\ [][NextInputs]_vars

(***************************************************************************)
(* The component with its visual-refresh passes: ngAfterViewChecked runs   *)
(* after each check of the view, between the handlers.  The children do    *)
(* not change.                                                             *)
(***************************************************************************)
\* A check of the view has completed.
NgAfterViewChecked ==
    /\ subscribed
    /\ Store(ngAfterViewChecked(Component), tabPanels, closeRequests)
    /\ lastOp' = Op("ngAfterViewChecked", null, undefined)
    /\ UNCHANGED <<controlClose, twoWay, subscribed, contentInit, created>>
    /\ UNCHANGED <<keyVars, stripVars>>

NextChecked ==
    \/ NgAfterContentInit
    \/ \E k \in IndexInputs : AssignActiveIndex(k)
    \/ \E p \in PanelIds : OpenTab(p)
    \/ \E p \in PanelIds : CloseTab(p)
    \/ \E p \in PanelIds : InvokeClose(p)
    \/ NgAfterViewChecked

SpecChecked == Init /\ [][NextChecked]_vars

(***************************************************************************)
(* The component with a listener of activeIndexChange that assigns the     *)
(* emitted index to activeIndex at once.                                   *)
(***************************************************************************)
\* A header is clicked; the listener writes the index back during the emit.
OpenTabListened(p) ==
    /\ subscribed
    /\ p \in Range(tabs)
    /\ ~panels[p].closed
    /\ Store(openWithListener(Component, p), tabPanels, closeRequests)
    /\ lastOp' = Op("open", p, undefined)
    /\ UNCHANGED <<controlClose, twoWay, subscribed, contentInit, created>>
    /\ UNCHANGED <<keyVars, stripVars>>

InitListened == Init /\ twoWay

NextListened ==
    \/ NgAfterContentInit
    \/ \E k \in IndexInputs : AssignActiveIndex(k)
    \/ \E p \in PanelIds : OpenTabListened(p)
    \/ \E p \in PanelIds : CloseTab(p)
    \/ \E p \in PanelIds : InvokeClose(p)
    \/ \E dis \in BOOLEAN : TabPanelAdded(dis)
    \/ \E i \in 1..Len(tabPanels) : TabPanelRemoved(i)

SpecListened == InitListened /\ [][NextListened]_vars

(***************************************************************************)
(* The component with its keyboard navigation.                             *)
(***************************************************************************)
\* The component as the keyboard handlers read and write it.
KeyboardComponent == Component @@ [focused |-> focused, selectOnFocus |-> selectOnFocus]

\* The index the handler emitted with activeIndexChange, if it emitted one.
IndexChanges(c) == SelectSeq(c.emitted, LAMBDA e : e.type = "activeIndexChange")

\* A key is pressed on the header of panel p: the header is rendered and
\* not disabled (a disabled button receives no key).  Under a two-way
\* binding an emitted index is written back to the activeIndex input.
KeyDown(code, p) ==
    /\ subscribed
    /\ p \in Range(tabs)
    /\ ~panels[p].closed
    /\ ~panels[p].disabled
    /\ LET c == onTabKeyDown(KeyboardComponent, code, p)
       IN  /\ IF twoWay /\ IndexChanges(c) # <<>>
              THEN Store(set_activeIndex(c, IndexChanges(c)[1].index), tabPanels, closeRequests)
              ELSE Store(c, tabPanels, closeRequests)
           /\ focused' = c.focused
    /\ lastOp' = Op(code, p, undefined)
    /\ UNCHANGED <<controlClose, twoWay, subscribed, contentInit, created>>
    /\ UNCHANGED <<selectOnFocus, stripVars>>

\* The declared panels are rendered, then headers are clicked, closed and
\* navigated with the keyboard while panels are removed; activeIndex is
\* bound two-way and not assigned by the application, and closing is left
\* to the listener of onClose.
InitKeys ==
    /\ InitEngine
    /\ twoWay
    /\ controlClose
    /\ \E sof \in BOOLEAN : InitKeyboard(sof)
    /\ InitStrip(FALSE, TRUE, 0, 0, 0)

NextKeys ==
    \/ NgAfterContentInit
    \/ \E p \in PanelIds : OpenTab(p)
    \/ \E p \in PanelIds : CloseTab(p)
    \/ \E p \in PanelIds : InvokeClose(p)
    \/ \E i \in 1..Len(tabPanels) : TabPanelRemoved(i)
    \/ \E code \in KeyCodes, p \in PanelIds : KeyDown(code, p)

SpecKeys == InitKeys /\ [][NextKeys]_vars

(***************************************************************************)
(* The component with its header strip, from construction to teardown.     *)
(***************************************************************************)
\* The handler's result becomes the component's state; these handlers emit
\* nothing and do not touch the panels.
StoreStrip(v) ==
    /\ listWidth' = v.listWidth
    /\ contentWidth' = v.contentWidth
    /\ scrollLeft' = v.scrollLeft
    /\ buttonVisible' = v.buttonVisible
    /\ backwardIsDisabled' = v.backwardIsDisabled
    /\ forwardIsDisabled' = v.forwardIsDisabled
    /\ resizeObserver' = v.resizeObserver
    /\ observed' = v.observed
    /\ subscribed' = v.subscribed
    /\ emitted' = <<>>
    /\ threw' = FALSE
    /\ UNCHANGED <<panels, tabPanels, tabs, activeIndex, preventActiveIndexPropagation,
                   tabChanged, controlClose, twoWay, contentInit, closeRequests, created>>
    /\ UNCHANGED <<keyVars, scrollable, autoHideButtons, buttonWidth>>

\* ngAfterViewInit, once the content is initialised.
NgAfterViewInit ==
    /\ subscribed
    /\ ~viewInit
    /\ ~destroyed
    /\ StoreStrip(ngAfterViewInit(Strip))
    /\ viewInit' = TRUE
    /\ lastOp' = Op("ngAfterViewInit", null, undefined)
    /\ UNCHANGED destroyed

\* The layout changes the width of the list or of the wrapper; the browser
\* keeps scrollLeft within the new range.  No handler runs.
Layout(list, content) ==
    /\ viewInit
    /\ ~destroyed
    /\ <<list, content>> # <<listWidth, contentWidth>>
    /\ LET v == [Strip EXCEPT !.listWidth = list, !.contentWidth = content]
       IN  StoreStrip([v EXCEPT !.scrollLeft = IF @ > MaxScrollLeft(v)
                                               THEN MaxScrollLeft(v) ELSE @])
    /\ lastOp' = Op("layout", null, undefined)
    /\ UNCHANGED <<viewInit, destroyed>>

\* The ResizeObserver delivers an observation of the wrapper: on observe,
\* and whenever its size changed.
ResizeObserved ==
    /\ container \in observed
    /\ StoreStrip(resizeCallback(Strip))
    /\ lastOp' = Op("resize", null, undefined)
    /\ UNCHANGED <<viewInit, destroyed>>

\* The strip is scrolled to position x, by the user or by a script, and the
\* scroll event is delivered.  The wrapper is a scroll container only with
\* the class p-tablist-viewport, which the template binds to scrollable.
Scroll(x) ==
    /\ viewInit
    /\ ~destroyed
    /\ scrollable
    /\ x # scrollLeft
    /\ x <= MaxScrollLeft(Strip)
    /\ StoreStrip(onScroll([Strip EXCEPT !.scrollLeft = x]))
    /\ lastOp' = Op("scroll", null, x)
    /\ UNCHANGED <<viewInit, destroyed>>

\* The component is destroyed.
NgOnDestroy ==
    /\ contentInit
    /\ ~destroyed
    /\ StoreStrip(ngOnDestroy(Strip))
    /\ destroyed' = TRUE
    /\ lastOp' = Op("ngOnDestroy", null, undefined)
    /\ UNCHANGED viewInit

Widths == 0..MaxWidth

ScrollPositions == 0..(SubPixel * MaxWidth)

\* One panel is declared; the inputs scrollable and autoHideButtons and the
\* first layout are arbitrary.
InitStripView ==
    /\ InitEngine
    /\ created = 1 /\ ~panels[1].selected /\ ~panels[1].disabled
    /\ ~controlClose /\ ~twoWay
    /\ InitKeyboard(FALSE)
    /\ \E scr \in BOOLEAN, hide \in BOOLEAN, list \in Widths, content \in Widths :
         InitStrip(scr, hide, 0, list, content)

NextStrip ==
    \/ NgAfterContentInit
    \/ NgAfterViewInit
    \/ \E list \in Widths, content \in Widths : Layout(list, content)
    \/ ResizeObserved
    \/ \E x \in ScrollPositions : Scroll(x)
    \/ NgOnDestroy

SpecStrip == InitStripView /\ [][NextStrip]_vars

(***************************************************************************)
(* The header strip with its two nav buttons, while panels are added and   *)
(* removed.                                                                *)
(***************************************************************************)
\* The prevBtn button is clicked.
NavBackward ==
    /\ viewInit
    /\ ~destroyed
    /\ prevBtn(Strip)
    /\ LET v == navBackward(Strip)
       IN  /\ StoreStrip(Scrolled(v, scrollLeft))
           /\ lastOp' = Op("navBackward", null, v.scrollLeft)
    /\ UNCHANGED <<viewInit, destroyed>>

\* The nextBtn button is clicked.
NavForward ==
    /\ viewInit
    /\ ~destroyed
    /\ nextBtn(Strip)
    /\ LET v == navForward(Strip)
       IN  /\ StoreStrip(Scrolled(v, scrollLeft))
           /\ lastOp' = Op("navForward", null, v.scrollLeft)
    /\ UNCHANGED <<viewInit, destroyed>>

\* One panel is declared; the inputs scrollable and autoHideButtons, the
\* width of a nav button and the first layout are arbitrary.
InitNav ==
    /\ InitEngine
    /\ created = 1 /\ ~panels[1].selected /\ ~panels[1].disabled
    /\ ~controlClose /\ ~twoWay
    /\ InitKeyboard(FALSE)
    /\ \E scr \in BOOLEAN, hide \in BOOLEAN, btn \in Widths,
          list \in Widths, content \in Widths :
         InitStrip(scr, hide, btn, list, content)

NextNav ==
    \/ NgAfterContentInit
    \/ NgAfterViewInit
    \/ \E list \in Widths, content \in Widths : Layout(list, content)
    \/ ResizeObserved
    \/ \E x \in ScrollPositions : Scroll(x)
    \/ NavBackward
    \/ NavForward
    \/ \E dis \in BOOLEAN : TabPanelAdded(dis)
    \/ \E i \in 1..Len(tabPanels) : TabPanelRemoved(i)

SpecNav == InitNav /\ [][NextNav]_vars

(***************************************************************************)
(* Properties.                                                             *)
(***************************************************************************)
Selected(p) == panels[p].selected

Closed(p) == panels[p].closed

Disabled(p) == panels[p].disabled

\* The panels of tabs that are selected and not closed.
OpenSelected == {p \in Range(tabs) : Selected(p) /\ ~Closed(p)}

\* C1: in every reachable state at most one non-closed panel of tabs has
\* selected = true.
C1_AtMostOneSelected == Cardinality(OpenSelected) <= 1

\* The step is the handler `name`.
Did(name) == lastOp'.op = name

\* The step is the handler `name` for panel p.
DidFor(name, p) == lastOp'.op = name /\ lastOp'.tab = p

\* C2: an external assignment activeIndex = k, with k in range and tabs[k]
\* not disabled, results in tabs[k].selected = true and selected = false for
\* every other panel of tabs.
C2_AssignSelects ==
    [][\A k \in IndexInputs :
         (/\ Did("activeIndex") /\ lastOp'.val = k
          /\ 0 <= k /\ k < Len(tabs)
          /\ ~Disabled(tabs[k + 1]))
         => (/\ panels'[tabs[k + 1]].selected
             /\ \A q \in Range(tabs) \ {tabs[k + 1]} : ~panels'[q].selected)]_vars

\* The lowest-index panel of tabs other than p that is neither closed nor
\* disabled, or null.
FirstOther(p) ==
    LET hits == {i \in 1..Len(tabs) :
                    tabs[i] # p /\ ~Closed(tabs[i]) /\ ~Disabled(tabs[i])}
    IN  IF hits = {} THEN null ELSE tabs[Min(hits)]

\* C3: in non-controlled mode, closing the selected, non-disabled panel
\* leaves it closed and not selected, and selects the lowest-index other
\* panel that is neither closed nor disabled, if there is one.
C3_CloseSelectsFirstOther ==
    [][\A p \in PanelIds :
         (/\ DidFor("close", p) /\ ~controlClose
          /\ Selected(p) /\ ~Disabled(p))
         => (/\ panels'[p].closed
             /\ ~panels'[p].selected
             /\ FirstOther(p) # null => panels'[FirstOther(p)].selected)]_vars

\* C4: a closed panel is never selected.
C4_ClosedNeverSelected ==
    \A p \in DOMAIN panels : Closed(p) => ~Selected(p)

\* C5: under a two-way binding, after every completed open, close or
\* assignment of activeIndex, if some panel is selected then activeIndex is
\* that panel's index in tabs.
C5_ActiveIndexInSync ==
    (/\ twoWay
     /\ lastOp.op \in {"open", "close", "activeIndex"}
     /\ ~threw
     /\ findSelectedTab(Component) # null)
    => activeIndex = findTabIndex(Component, findSelectedTab(Component))

\* Panels the step leaves as they were.
PanelsUnchanged == \A q \in DOMAIN panels' : q \in DOMAIN panels /\ panels'[q] = panels[q]

\* C6: open on a non-disabled, not yet selected panel deselects the selected
\* panel, selects the given one, sets tabChanged, then emits one
\* activeIndexChange and one onChange, in this order, both with the panel's
\* index in tabs and both after the selection and the flag are updated; the
\* scroll request comes after both.
C6_OpenSelectsThenNotifies ==
    [][\A p \in PanelIds :
         (DidFor("open", p) /\ ~Disabled(p) /\ ~Selected(p))
         => LET prev == findSelectedTab(Component)
                index == findTabIndex(Component, p)
            IN  /\ prev # null => ~panels'[prev].selected
                /\ panels'[p].selected
                /\ tabChanged'
                /\ Len(emitted') = 3
                /\ emitted'[1].type = "activeIndexChange" /\ emitted'[1].index = index
                /\ emitted'[2].type = "onChange" /\ emitted'[2].index = index
                /\ emitted'[3].type = "updateScrollBar" /\ emitted'[3].index = index
                /\ index >= 0
                /\ \A i \in 1..2 : /\ emitted'[i].selected = SelectedSet(panels')
                                   /\ emitted'[i].tabChanged]_vars

\* Reached: an open that moved the selection from another panel.
C6_Witness ==
    /\ lastOp.op = "open"
    /\ Len(emitted) = 3
    /\ Selected(lastOp.tab)
    /\ \E q \in Range(tabs) \ {lastOp.tab} : panels[q].loaded /\ ~Selected(q)

\* C7: open on the selected, non-disabled panel changes no panel, sets
\* neither tabChanged nor the guard flag, and emits nothing.
C7_OpenSelectedIsNoOp ==
    [][\A p \in PanelIds :
         (DidFor("open", p) /\ ~Disabled(p) /\ Selected(p))
         => (/\ PanelsUnchanged
             /\ tabChanged' = tabChanged
             /\ preventActiveIndexPropagation' = preventActiveIndexPropagation
             /\ emitted' = <<>>)]_vars

\* Reached: open of the selected panel with both flags clear.
C7_Witness ==
    /\ lastOp.op = "open"
    /\ Selected(lastOp.tab) /\ ~Disabled(lastOp.tab)
    /\ emitted = <<>>
    /\ ~tabChanged /\ ~preventActiveIndexPropagation

\* The panel initialisation selects over children of which none is selected.
InitTarget ==
    IF activeIndex # undefined /\ 0 <= activeIndex /\ activeIndex < Len(tabPanels)
    THEN tabPanels[activeIndex + 1]
    ELSE tabPanels[1]

\* C8: initialisation over a non-empty panel list of which none is selected
\* selects tabs[activeIndex] when activeIndex is set and in range, otherwise
\* tabs[0]; then exactly one panel is selected, tabChanged is set and nothing
\* was emitted.  Over an empty list nothing is selected.
C8_InitSelects ==
    [][Did("ngAfterContentInit")
       => (/\ (Len(tabPanels) > 0 /\ SelectedSet(panels) = {})
              => (/\ SelectedSet(panels') = {InitTarget}
                  /\ tabChanged'
                  /\ emitted' = <<>>)
           /\ Len(tabPanels) = 0 => SelectedSet(panels') = {})]_vars

\* C9: open or close of a disabled panel changes no panel's selected, closed
\* or loaded, and open of a disabled panel emits nothing.
C9_DisabledIsNoOp ==
    [][\A p \in PanelIds :
         /\ (DidFor("open", p) /\ Disabled(p)) => (PanelsUnchanged /\ emitted' = <<>>)
         /\ ((DidFor("close", p) \/ DidFor("closeContinuation", p)) /\ Disabled(p))
            => PanelsUnchanged]_vars

\* Reached: an immediate close of a disabled panel, which stays open.
C9_Witness ==
    /\ lastOp.op = "close" /\ ~controlClose
    /\ Disabled(lastOp.tab) /\ ~Closed(lastOp.tab)
    /\ Len(emitted) = 1

\* C10: in controlled-close mode close changes no panel's selected or closed;
\* it emits one onClose carrying the panel's index and a continuation, and a
\* panel becomes closed only in a step that invokes its continuation.
C10_ControlledClose ==
    [][controlClose
       => (/\ \A p \in PanelIds :
                DidFor("close", p)
                => (/\ PanelsUnchanged
                    /\ Len(emitted') = 1
                    /\ emitted'[1].type = "onClose"
                    /\ emitted'[1].close
                    /\ emitted'[1].index = findTabIndex(Component, p)
                    /\ p \in closeRequests')
           /\ \A p \in DOMAIN panels \cap DOMAIN panels' :
                (~Closed(p) /\ panels'[p].closed)
                => DidFor("closeContinuation", p))]_vars

\* Reached: a panel closed by its continuation after a controlled close.
C10_Witness ==
    /\ controlClose
    /\ lastOp.op = "closeContinuation"
    /\ lastOp.tab \in Range(tabs)
    /\ Closed(lastOp.tab)

\* C11: every close of a panel emits exactly one onClose whose index is the
\* panel's position in tabs; in non-controlled mode it is emitted after the
\* panel's closed and selected are updated and carries no continuation.
C11_CloseEmitsOnce ==
    [][\A p \in PanelIds :
         DidFor("close", p)
         => (/\ Len(emitted') = 1
             /\ emitted'[1].type = "onClose"
             /\ emitted'[1].index = findTabIndex(Component, p)
             /\ emitted'[1].index >= 0
             /\ ~controlClose
                => (/\ ~emitted'[1].close
                    /\ emitted'[1].closed = ClosedSet(panels')
                    /\ emitted'[1].selected = SelectedSet(panels')))]_vars

\* Reached: an immediate close that closed the selected panel and moved the
\* selection, with its one notification.
C11_Witness ==
    /\ lastOp.op = "close" /\ ~controlClose
    /\ Len(emitted) = 1
    /\ Closed(lastOp.tab) /\ ~Selected(lastOp.tab)
    /\ lastOp.tab \in emitted[1].closed
    /\ emitted[1].selected # {}

\* C13: closed never goes from true back to false, and a closed panel stays
\* in tabs for as long as it is in the child declaration.
C13_ClosedIsOneWay ==
    [][\A p \in DOMAIN panels \cap DOMAIN panels' :
         Closed(p)
         => (/\ panels'[p].closed
             /\ (p \in Range(tabs) /\ p \in Range(tabPanels')) => p \in Range(tabs'))]_vars

\* Reached: a closed panel that is still in tabs after the child declaration
\* changed.
C13_Witness ==
    /\ lastOp.op \in {"added", "removed"}
    /\ \E p \in Range(tabs) : Closed(p) /\ p # lastOp.tab

\* C14: loaded is true exactly for the panels whose selected was set to
\* true at some point: a selected panel is loaded, loaded never returns to
\* false, and a panel becomes loaded only in a step that selects it.
C14_LoadedIffEverSelected ==
    [][/\ \A p \in DOMAIN panels' : panels'[p].selected => panels'[p].loaded
       /\ \A p \in DOMAIN panels \cap DOMAIN panels' :
            /\ panels[p].loaded => panels'[p].loaded
            /\ (~panels[p].loaded /\ panels'[p].loaded) => panels'[p].selected
       /\ \A p \in DOMAIN panels' \ DOMAIN panels :
            panels'[p].loaded => panels'[p].selected]_vars

\* Reached: a panel that was selected earlier, is no longer, and is loaded,
\* next to a panel that was never selected and is not loaded.
C14_Witness ==
    /\ \E p \in Range(tabs) : panels[p].loaded /\ ~Selected(p)
    /\ \E q \in Range(tabs) : ~panels[q].loaded

\* C12: when the listener of activeIndexChange assigns the emitted index to
\* activeIndex during open, the assignment only stores the index and clears
\* the guard flag: the selection the listener of onChange observes is the one
\* the listener of activeIndexChange observed, and open emits its two
\* notifications and its scroll request once each.
C12_WriteBackOnlyStores ==
    [][\A p \in PanelIds :
         (DidFor("open", p) /\ ~Disabled(p) /\ ~Selected(p))
         => LET index == findTabIndex(Component, p)
                others == SelectedSet(panels) \ {findSelectedTab(Component)}
            IN  /\ activeIndex' = index
                /\ ~preventActiveIndexPropagation'
                /\ Len(emitted') = 3
                /\ emitted'[1].type = "activeIndexChange"
                /\ emitted'[2].type = "onChange"
                /\ emitted'[3].type = "updateScrollBar"
                /\ emitted'[1].selected = others \cup {p}
                /\ emitted'[2].selected = emitted'[1].selected
                /\ SelectedSet(panels') = emitted'[1].selected
                /\ ~threw']_vars

\* Reached: an open that moved the selection away from a panel selected
\* before, with the emitted index written back and the guard flag clear.
C12_Witness ==
    /\ lastOp.op = "open"
    /\ Len(emitted) = 3
    /\ activeIndex = emitted[1].index
    /\ ~preventActiveIndexPropagation
    /\ \E q \in Range(tabs) \ {lastOp.tab} : panels[q].loaded /\ ~Selected(q)

Max(S) == CHOOSE x \in S : \A y \in S : x >= y

\* The positions in tabs of the panels that are neither closed nor disabled.
Reachable == {i \in 1..Len(tabs) : ~Closed(tabs[i]) /\ ~Disabled(tabs[i])}

\* The position of panel p in tabs.
PositionOf(p) == findTabIndex(Component, p) + 1

\* C15: Home or PageUp pressed on a reachable header moves focus to the
\* lowest-index header whose panel is neither closed nor disabled, End or
\* PageDown to the highest-index such header.
C15_HomeEndFocus ==
    [][/\ (Did("Home") \/ Did("PageUp")) => focused' = tabs[Min(Reachable)]
       /\ (Did("End") \/ Did("PageDown")) => focused' = tabs[Max(Reachable)]]_vars

\* Reached: Home moved the focus back over a disabled header to a header
\* that is not the first rendered one, and End forward to one that is not
\* the last.
C15_Witness ==
    /\ lastOp.op \in {"Home", "End"}
    /\ focused # lastOp.tab
    /\ \E i \in 1..Len(tabs) :
         /\ Disabled(tabs[i]) /\ ~Closed(tabs[i])
         /\ lastOp.op = "Home" => i < PositionOf(focused)
         /\ lastOp.op = "End" => i > PositionOf(focused)

\* C16: ArrowRight (ArrowLeft) pressed on a header moves focus to the
\* nearest following (preceding) header whose panel is neither closed nor
\* disabled, or, when there is none, to the first (last) such header; the
\* focused header is never one of a closed or disabled panel.
C16_ArrowFocus ==
    [][\A p \in PanelIds :
         LET following == {i \in Reachable : i > PositionOf(p)}
             preceding == {i \in Reachable : i < PositionOf(p)}
         IN  /\ DidFor("ArrowRight", p)
                => focused' = tabs[Min(IF following # {} THEN following ELSE Reachable)]
             /\ DidFor("ArrowLeft", p)
                => focused' = tabs[Max(IF preceding # {} THEN preceding ELSE Reachable)]
             /\ (lastOp'.op \in KeyCodes \ {"Enter", "Space"} /\ lastOp'.tab = p)
                => (/\ focused' \in Range(tabs')
                    /\ ~panels'[focused'].closed
                    /\ ~panels'[focused'].disabled)]_vars

\* Reached: ArrowRight on the last reachable header wrapped to the first
\* reachable one, which a disabled header precedes.
C16_Witness ==
    /\ lastOp.op = "ArrowRight"
    /\ PositionOf(focused) < PositionOf(lastOp.tab)
    /\ \E i \in 1..Len(tabs) :
         i < PositionOf(focused) /\ Disabled(tabs[i]) /\ ~Closed(tabs[i])

\* The notifications among what the handler emitted.
Notifications(es) ==
    SelectSeq(es, LAMBDA e : e.type \in {"activeIndexChange", "onChange", "onClose"})

\* C17: with selectOnFocus, after an arrow key, Home, End, PageUp or
\* PageDown the panel of the focused header is the selected panel; without
\* it these keys change no panel's selected and emit no notification.
C17_SelectionFollowsFocus ==
    [][lastOp'.op \in KeyCodes \ {"Enter", "Space"}
       => (/\ selectOnFocus
              => (/\ panels'[focused'].selected
                  /\ findSelectedTab([Component EXCEPT !.panels = panels']) = focused')
           /\ ~selectOnFocus
              => (/\ PanelsUnchanged
                  /\ Notifications(emitted') = <<>>))]_vars

\* C18: each callback of the size observer sets buttonVisible to whether the
\* list is at least as wide as the wrapper, and recomputes the two boundary
\* flags from the current scroll position.
C18_ResizeCallback ==
    [][Did("resize")
       => (/\ buttonVisible' = (listWidth >= contentWidth)
           /\ backwardIsDisabled' = (scrollLeft = 0)
           /\ forwardIsDisabled' = (Math_round(scrollLeft) = scrollWidth(Strip) - contentWidth)
           /\ UNCHANGED <<listWidth, contentWidth, scrollLeft>>)]_vars

\* Reached: a callback over a list exactly as wide as the wrapper, which
\* shows the button and finds the strip at both ends.
C18_Witness ==
    /\ lastOp.op = "resize"
    /\ listWidth = contentWidth /\ contentWidth > 0
    /\ buttonVisible /\ backwardIsDisabled /\ forwardIsDisabled

\* C19 as stated: after a scroll event backwardIsDisabled is true iff the
\* scroll offset is 0 and forwardIsDisabled is true iff the scroll offset
\* equals scrollWidth minus the visible width.
C19_ScrollFlagsExact ==
    [][Did("scroll")
       => (/\ backwardIsDisabled' = (scrollLeft' = 0)
           /\ forwardIsDisabled' = (scrollLeft' = MaxScrollLeft(Strip)))]_vars

\* C19, amended: after a scroll event backwardIsDisabled is true iff the
\* scroll offset is 0 and forwardIsDisabled is true iff the scroll offset
\* rounded to the nearest pixel equals scrollWidth minus the visible width;
\* at the rightmost extent forwardIsDisabled is true and backwardIsDisabled
\* is false unless that is the left extreme too.
C19_ScrollFlagsRounded ==
    [][Did("scroll")
       => (/\ backwardIsDisabled' = (scrollLeft' = 0)
           /\ forwardIsDisabled' = (Math_round(scrollLeft') = scrollWidth(Strip) - contentWidth)
           /\ scrollLeft' = MaxScrollLeft(Strip)
              => (forwardIsDisabled' /\ ~backwardIsDisabled'))]_vars

\* Reached: the strip scrolled to its rightmost extent.
C19_Witness ==
    /\ lastOp.op = "scroll"
    /\ scrollLeft = MaxScrollLeft(Strip) /\ scrollLeft > SubPixel
    /\ forwardIsDisabled /\ ~backwardIsDisabled

\* C20: after the component is destroyed the element the size observer was
\* bound to observe is no longer observed, the observer reference is
\* discarded, and the subscription to the children's changes is cancelled.
C20_ReleasedOnDestroy ==
    destroyed => (/\ container \notin observed
                  /\ ~resizeObserver
                  /\ ~subscribed)

\* The children of the next state that are selected before the step.
RemainingSelected == {p \in Range(tabPanels') \cap DOMAIN panels : Selected(p)}

\* The panel a change of the children selects when none of them is selected.
ChangeTarget ==
    IF activeIndex # undefined /\ 0 <= activeIndex /\ activeIndex < Len(tabPanels')
    THEN tabPanels'[activeIndex + 1]
    ELSE tabPanels'[1]

\* C23: after every change of the child panel set tabs is the current
\* children in declaration order; when tabs is not empty and none of its
\* panels is selected, the panel at activeIndex is selected if that index is
\* in range and the panel at index 0 otherwise; when a selected panel
\* remains, no panel's selected changes.
C23_ChildrenChange ==
    [][(Did("added") \/ Did("removed"))
       => (/\ tabs' = tabPanels'
           /\ (tabPanels' # <<>> /\ RemainingSelected = {})
              => {p \in Range(tabs') : panels'[p].selected} = {ChangeTarget}
           /\ RemainingSelected # {}
              => {p \in Range(tabs') : panels'[p].selected} = RemainingSelected)]_vars

\* C24: the re-entrancy guard is never left armed: between handlers
\* preventActiveIndexPropagation is false, so the external assignment
\* activeIndex = k (k in range) that follows an open under a one-way binding
\* selects tabs[k].
C24_GuardNeverLeftArmed ==
    [][/\ ~preventActiveIndexPropagation'
       /\ \A k \in IndexInputs :
            (/\ lastOp.op = "open" /\ ~twoWay
             /\ Did("activeIndex") /\ lastOp'.val = k
             /\ 0 <= k /\ k < Len(tabs))
            => panels'[tabs[k + 1]].selected]_vars

\* C25: an external assignment activeIndex = k with k in range completes
\* without error, and when no panel of tabs is selected it selects tabs[k].
C25_AssignNeverFails ==
    [][\A k \in IndexInputs :
         (/\ Did("activeIndex") /\ lastOp'.val = k
          /\ 0 <= k /\ k < Len(tabs))
         => (/\ ~threw'
             /\ (\A q \in Range(tabs) : ~Selected(q))
                => panels'[tabs[k + 1]].selected)]_vars

\* The page width of a step of navBackward or navForward: the wrapper's
\* width less the widths of the nav buttons visible before the step, in
\* units of 1/SubPixel pixel.
PageWidth == SubPixel * (contentWidth - getVisibleButtonWidths(Strip))

\* C22: navBackward and navForward move the scroll offset by one page width,
\* and the offset they assign lies between 0 and scrollWidth less the
\* wrapper's visible width (the page width).
C22_NavWithinRange ==
    [][(Did("navBackward") \/ Did("navForward"))
       => LET assigned == lastOp'.val
              last == SubPixel * scrollWidth(Strip) - PageWidth
          IN  /\ 0 <= assigned
              /\ assigned <= last
              /\ Did("navBackward")
                 => assigned = IF scrollLeft - PageWidth <= 0 THEN 0
                               ELSE scrollLeft - PageWidth
              /\ Did("navForward")
                 => assigned = IF scrollLeft + PageWidth >= last THEN last
                               ELSE scrollLeft + PageWidth]_vars

\* C26: after a change of the children has been processed by
\* refreshButtonState, buttonVisible is true exactly when the header list is
\* at least as wide as the wrapper.
C26_ButtonVisibleAfterChange ==
    [][((Did("added") \/ Did("removed")) /\ ~threw')
       => (buttonVisible' = (listWidth' >= contentWidth'))]_vars

\* The writes of the indicator's geometry the step made.
InkBarUpdates == SelectSeq(emitted', LAMBDA e : e.type = "updateInkBar")

\* The step changes the selected field of some panel.
SelectionChanges ==
    \E p \in DOMAIN panels \cap DOMAIN panels' : panels'[p].selected # panels[p].selected

\* C21: every change of the selection by ngAfterContentInit, open, close, a
\* close continuation or an assignment of activeIndex sets tabChanged; a
\* visual-refresh pass that finds tabChanged set repositions the indicator
\* once and clears the flag; a pass that finds it clear does not reposition.
C21_DirtyFlagConsumedOnce ==
    [][/\ ((\/ Did("ngAfterContentInit") \/ Did("open") \/ Did("close")
            \/ Did("closeContinuation") \/ Did("activeIndex"))
           /\ SelectionChanges)
          => tabChanged'
       /\ (Did("ngAfterViewChecked") /\ tabChanged)
          => (Len(InkBarUpdates) = 1 /\ ~tabChanged')
       /\ (Did("ngAfterViewChecked") /\ ~tabChanged)
          => (Len(InkBarUpdates) = 0 /\ ~tabChanged')]_vars
====
